---- MODULE Spec2Model ----
(***************************************************************************)
(* Model of exporter/run_export.py: the Label Studio JSON export is parsed *)
(* into per-video tracks (parse_ls_tracks), and every video of VIDEO_DIR   *)
(* that has tracks is written as a MOTChallenge sequence                   *)
(* (write_mot_sequence): seqinfo.ini, gt/gt.txt, det/det.txt and the       *)
(* images ffmpeg extracts into img1/.                                      *)
(*                                                                         *)
(* Strings are sequences of code points, so that Python's str comparison   *)
(* (lexicographic by code point) and its tuple comparison are the one      *)
(* operator LexLess.  The percentage box of a keyframe and the pixel       *)
(* columns of a row are left out: a keyframe tuple is its ls_frame and a   *)
(* row is its text without the four coordinate columns.                    *)
(***************************************************************************)
EXTENDS Integers, Sequences, FiniteSets, TLC

\* Bounds of the explored inputs.
MaxFrame == 4         \* largest keyframe "frame" of an export
MaxStride == 3        \* largest FRAME_STRIDE of config.yml
MaxTotalFrames == 4   \* largest total_frames ffprobe_info reports
MaxKeyframes == 2     \* longest value.sequence of the keyframe-flag exports
MaxSourceFrames == 8  \* longest decoded stream of the extractor specification

VARIABLES
    ls_json,          \* the decoded export: a sequence of tasks
    FRAME_STRIDE,     \* CONFIG["video_processing"]["frame_stride"]
    videos,           \* list(VIDEO_DIR.glob("*.mp4")), as stems, in glob order
    tracks_by_video,  \* what parse_ls_tracks returned (ordered dict of ordered dicts)
    pc,               \* where main is
    vi,               \* position of the for loop over videos
    fs,               \* OUTPUT_DIR: per sequence name, its files
    probe,            \* per sequence name, total_frames of ffprobe_info (-1: not probed)
    total_frames,     \* extractor specification: frames of the decoded stream
    n,                \* extractor specification: index of the next decoded frame
    img1,             \* extractor specification: source index of image 1, 2, 3, ...
    ls_frame,         \* extractor specification: the keyframe's 1-based frame (0: none yet)
    mot_frame,        \* extractor specification: the MOT frame assigned to ls_frame
    seq_length        \* extractor specification: seqLength written (-1: not yet)

vars == <<ls_json, FRAME_STRIDE, videos, tracks_by_video, pc, vi, fs, probe,
          total_frames, n, img1, ls_frame, mot_frame, seq_length>>
mainVars == <<ls_json, videos, tracks_by_video, pc, vi, fs, probe>>
frameVars == <<total_frames, n, img1, ls_frame, mot_frame, seq_length>>

----------------------------------------------------------------------------
\* Python primitives

\* f"{i}" of an int
RECURSIVE IntToStr(_)
IntToStr(i) ==
    IF i < 0 THEN <<45>> \o IntToStr(-i)
    ELSE IF i < 10 THEN <<48 + i>>
    ELSE IntToStr(i \div 10) \o <<48 + (i % 10)>>

\* int(s) of a decimal string
RECURSIVE StrToInt(_)
StrToInt(s) ==
    IF s = <<>> THEN 0
    ELSE IF Head(s) = 45 THEN 0 - StrToInt(Tail(s))
    ELSE StrToInt(SubSeq(s, 1, Len(s) - 1)) * 10 + (s[Len(s)] - 48)

\* a < b for two strings, or for two tuples of ints
RECURSIVE LexLess(_, _)
LexLess(a, b) ==
    IF b = <<>> THEN FALSE
    ELSE IF a = <<>> THEN TRUE
    ELSE IF Head(a) # Head(b) THEN Head(a) < Head(b)
    ELSE LexLess(Tail(a), Tail(b))

\* list.sort / sorted with a key: stable, ascending. Items are [k, v] with k the key.
RECURSIVE InsertByKey(_, _)
InsertByKey(sorted, x) ==
    IF sorted = <<>> THEN <<x>>
    ELSE IF LexLess(x.k, sorted[Len(sorted)].k)
         THEN Append(InsertByKey(SubSeq(sorted, 1, Len(sorted) - 1), x),
                     sorted[Len(sorted)])
         ELSE Append(sorted, x)

RECURSIVE StableSort(_)
StableSort(items) ==
    IF items = <<>> THEN <<>>
    ELSE InsertByKey(StableSort(SubSeq(items, 1, Len(items) - 1)), items[Len(items)])

\* s.split(",")[k - 1]
RECURSIVE SplitField(_, _)
SplitField(s, k) ==
    LET commas == {i \in 1..Len(s) : s[i] = 44}
        first == IF commas = {} THEN Len(s) + 1
                 ELSE CHOOSE i \in commas : \A j \in commas : i <= j
    IN  IF k = 1 THEN SubSeq(s, 1, first - 1)
        ELSE IF commas = {} THEN <<>>
        ELSE SplitField(SubSeq(s, first + 1, Len(s)), k - 1)

----------------------------------------------------------------------------
\* Values of result["id"]: absent (None), a JSON string or a JSON number.

NoId == [kind |-> "none", s |-> <<>>, i |-> 0]
StrKey(s) == [kind |-> "str", s |-> s, i |-> 0]
IntKey(i) == [kind |-> "int", s |-> <<>>, i |-> i]

\* str(key)
Str(key) == IF key.kind = "int" THEN IntToStr(key.i)
            ELSE IF key.kind = "none" THEN <<78, 111, 110, 101>>
            ELSE key.s

\* not key
Falsy(key) ==
    \/ key.kind = "none"
    \/ key.kind = "str" /\ key.s = <<>>
    \/ key.kind = "int" /\ key.i = 0

\* The fields a keyframe is read for.
KeyframeFields == {"frame", "x", "y", "width", "height"}

----------------------------------------------------------------------------
\* Ordered dicts (insertion order kept): sequences of [key, val].

Find(d, key) ==
    IF \E i \in 1..Len(d) : d[i].key = key
    THEN CHOOSE i \in 1..Len(d) : d[i].key = key
    ELSE 0

Keys(d) == [i \in 1..Len(d) |-> d[i].key]

\* tracks_per_video[video_name][track_key].append(tup), on defaultdicts
AppendFrame(tpv, video_name, track_key, tup) ==
    LET v == Find(tpv, video_name)
        tracks == IF v = 0 THEN <<>> ELSE tpv[v].val
        t == Find(tracks, track_key)
        tracks2 == IF t = 0
                   THEN Append(tracks, [key |-> track_key, val |-> <<tup>>])
                   ELSE [tracks EXCEPT ![t].val = Append(@, tup)]
    IN  IF v = 0
        THEN Append(tpv, [key |-> video_name, val |-> tracks2])
        ELSE [tpv EXCEPT ![v].val = tracks2]

----------------------------------------------------------------------------
\* parse_ls_tracks

\* raw_name.split("-", 1)[1] if "-" in raw_name else raw_name
VideoName(raw_name) ==
    LET dashes == {i \in 1..Len(raw_name) : raw_name[i] = 45}
    IN  IF dashes = {} THEN raw_name
        ELSE LET first == CHOOSE i \in dashes : \A j \in dashes : i <= j
             IN  SubSeq(raw_name, first + 1, Len(raw_name))

\* result.get("id"), or the fallback f"{task id}-{from_name}-{to_name}"
TrackKey(task, result) ==
    IF Falsy(result.id)
    THEN StrKey(IntToStr(task.id) \o <<45>> \o result.from_name
                \o <<45>> \o result.to_name)
    ELSE result.id

\* Mutant of KfEnabled: kf.get("enabled") without the default
KfEnabledNoDefault(kf) == kf.enabled = "true"

\* kf.get("enabled", True)
KfEnabled(kf) == kf.enabled # "false"

\* Mutant of KfKeyError: every field read with .get and a default
KfNeverKeyError(kf) == FALSE

\* kf["frame"], kf["x"], kf["y"], kf["width"], kf["height"]: a KeyError when one is absent
KfKeyError(kf) == ~(KeyframeFields \subseteq kf.fields)

\* for kf in seq: ...   (acc.err: an exception left the function)
RECURSIVE ParseSequence(_, _, _, _)
ParseSequence(acc, video_name, track_key, seq) ==
    IF acc.err \/ seq = <<>> THEN acc
    ELSE LET kf == Head(seq)
         IN  IF ~KfEnabled(kf)
             THEN ParseSequence(acc, video_name, track_key, Tail(seq))
             ELSE IF KfKeyError(kf)
             THEN [acc EXCEPT !.err = TRUE]
             ELSE ParseSequence(
                     [acc EXCEPT !.tpv = AppendFrame(@, video_name, track_key, kf.frame)],
                     video_name, track_key, Tail(seq))

\* for result in ann.get("result", []): ...
RECURSIVE ParseResults(_, _, _, _)
ParseResults(acc, task, video_name, results) ==
    IF acc.err \/ results = <<>> THEN acc
    ELSE LET result == Head(results)
             next == IF result.type # "videorectangle" THEN acc
                     ELSE ParseSequence(acc, video_name, TrackKey(task, result),
                                        result.sequence)
         IN  ParseResults(next, task, video_name, Tail(results))

\* for ann in task.get("annotations", []): ...
RECURSIVE ParseAnnotations(_, _, _, _)
ParseAnnotations(acc, task, video_name, annotations) ==
    IF acc.err \/ annotations = <<>> THEN acc
    ELSE ParseAnnotations(ParseResults(acc, task, video_name, Head(annotations).result),
                          task, video_name, Tail(annotations))

\* for task in data: ...   (task.video is the stem of data.video; <<>>: no video)
RECURSIVE ParseTasks(_, _)
ParseTasks(acc, data) ==
    IF acc.err \/ data = <<>> THEN acc
    ELSE LET task == Head(data)
             next == IF task.video = <<>> THEN acc
                     ELSE ParseAnnotations(acc, task, VideoName(task.video),
                                           task.annotations)
         IN  ParseTasks(next, Tail(data))

\* tracks_per_video[vname][tkey].sort(key=lambda tup: tup[0])
SortFrames(frames) ==
    LET sorted == StableSort([j \in 1..Len(frames) |-> [k |-> <<frames[j]>>, v |-> frames[j]]])
    IN  [j \in 1..Len(frames) |-> sorted[j].v]

SortTracks(tpv) ==
    [v \in 1..Len(tpv) |->
        [key |-> tpv[v].key,
         val |-> [t \in 1..Len(tpv[v].val) |->
                    [key |-> tpv[v].val[t].key,
                     val |-> SortFrames(tpv[v].val[t].val)]]]]

\* The whole function: [err |-> it raised, tracks |-> what it returned]
parse_ls_tracks(data) ==
    LET acc == ParseTasks([err |-> FALSE, tpv |-> <<>>], data)
    IN  [err |-> acc.err, tracks |-> IF acc.err THEN <<>> ELSE SortTracks(acc.tpv)]

----------------------------------------------------------------------------
\* write_mot_sequence

\* Mutant of MotFrame: the docstring's (ls_frame // stride) + 1
MotFrameDocstring(frame, stride) == (frame \div stride) + 1

\* mot_frame = (ls_zero // FRAME_STRIDE) + 1, with ls_zero = ls_frame - 1
MotFrame(frame, stride) == ((frame - 1) \div stride) + 1

\* Mutants of SeqLength: total_frames not reduced by one; the partial stride dropped
SeqLengthOfTotal(total, stride) == IF total > 0 THEN (total \div stride) + 1 ELSE 0
SeqLengthFloor(total, stride) == total \div stride

\* seq_length = ((total_frames - 1) // FRAME_STRIDE) + 1 if total_frames > 0 else 0
SeqLength(total, stride) == IF total > 0 THEN ((total - 1) \div stride) + 1 ELSE 0

\* ffmpeg's select=not(mod(n,FRAME_STRIDE)) on the decoded frame of 0-based index idx
SelectFrame(idx, stride) == idx % stride = 0

\* ffmpeg over a stream of `total` frames: the source index of image 1, 2, 3, ...
\* (-start_number 1, "%06d.jpg")
RECURSIVE ExtractFrames(_, _)
ExtractFrames(total, stride) ==
    IF total = 0 THEN <<>>
    ELSE LET before == ExtractFrames(total - 1, stride)
         IN  IF SelectFrame(total - 1, stride) THEN Append(before, total - 1)
             ELSE before

\* Mutant of SortedKeys: enumerate(tracks.keys()), not sorted
UnsortedKeys(keys) == keys

\* sorted(tracks.keys(), key=str)
SortedKeys(keys) ==
    LET sorted == StableSort([j \in 1..Len(keys) |-> [k |-> Str(keys[j]), v |-> keys[j]]])
    IN  [j \in 1..Len(keys) |-> sorted[j].v]

\* track_id_map = {k: i + 1 for i, k in enumerate(sorted(...))}: key number j has id j
track_id_map(tracks) == SortedKeys(Keys(tracks))

\* track_id_map[track_key]
MotId(map, track_key) == CHOOSE j \in 1..Len(map) : map[j] = track_key

\* f"{mot_frame},{mot_id},1,-1,-1,-1" (the coordinate columns left out)
GtLine(frame, id) ==
    IntToStr(frame) \o <<44>> \o IntToStr(id)
        \o <<44, 49, 44, 45, 49, 44, 45, 49, 44, 45, 49>>

\* f"{mot_frame},-1,1.0,-1,-1,-1" (the coordinate columns left out)
DetLine(frame) ==
    IntToStr(frame) \o <<44, 45, 49, 44, 49, 46, 48, 44, 45, 49, 44, 45, 49, 44, 45, 49>>

\* for track_key, frames in tracks.items(): for ls_frame, ... in frames: append
RECURSIVE AppendLines(_, _, _, _)
AppendLines(tracks, map, stride, gt) ==
    IF tracks = <<>> THEN <<>>
    ELSE LET frames == Head(tracks).val
             mot_id == MotId(map, Head(tracks).key)
         IN  [j \in 1..Len(frames) |->
                 IF gt THEN GtLine(MotFrame(frames[j], stride), mot_id)
                 ELSE DetLine(MotFrame(frames[j], stride))]
             \o AppendLines(Tail(tracks), map, stride, gt)

\* Mutant of GtSortKey: the key of det_lines, the frame alone
GtSortKeyFrameOnly(line) == <<StrToInt(SplitField(line, 1))>>

\* key=lambda line: (int(line.split(",")[0]), int(line.split(",")[1]))
GtSortKey(line) == <<StrToInt(SplitField(line, 1)), StrToInt(SplitField(line, 2))>>

\* key=lambda line: int(line.split(",")[0])
DetSortKey(line) == <<StrToInt(SplitField(line, 1))>>

\* gt_lines after gt_lines.sort(...)
gt_lines(tracks, stride) ==
    LET lines == AppendLines(tracks, track_id_map(tracks), stride, TRUE)
        sorted == StableSort([j \in 1..Len(lines) |-> [k |-> GtSortKey(lines[j]), v |-> lines[j]]])
    IN  [j \in 1..Len(lines) |-> sorted[j].v]

\* det_lines after det_lines.sort(...)
det_lines(tracks, stride) ==
    LET lines == AppendLines(tracks, track_id_map(tracks), stride, FALSE)
        sorted == StableSort([j \in 1..Len(lines) |-> [k |-> DetSortKey(lines[j]), v |-> lines[j]]])
    IN  [j \in 1..Len(lines) |-> sorted[j].v]

\* A sequence directory: seqinfo.ini (seqLength -1: no readable value), gt/gt.txt,
\* det/det.txt, and img1 as the source index of each image.
NoFile == [exists |-> FALSE, lines |-> <<>>]
File(lines) == [exists |-> TRUE, lines |-> lines]
EmptyDir == [seqinfo |-> [exists |-> FALSE, seqLength |-> -1],
             gt |-> NoFile, det |-> NoFile, img1 |-> <<>>]

\* The directory a call that returns leaves
write_mot_sequence(tracks, total, stride) ==
    [seqinfo |-> [exists |-> TRUE, seqLength |-> SeqLength(total, stride)],
     gt |-> File(gt_lines(tracks, stride)),
     det |-> File(det_lines(tracks, stride)),
     img1 |-> ExtractFrames(total, stride)]

Prefixes(lines) == {SubSeq(lines, 1, k) : k \in 0..(Len(lines) - 1)}

\* The directories a call can leave when `step` raises: write_text creates the file
\* and may have written any part of it; ffmpeg may have written any of the images.
FailedWrite(full, step) ==
    CASE step = "ffprobe" -> {EmptyDir}
      [] step = "seqinfo" ->
            {EmptyDir, [EmptyDir EXCEPT !.seqinfo = [exists |-> TRUE, seqLength |-> -1]]}
      [] step = "gt" ->
            {[EmptyDir EXCEPT !.seqinfo = full.seqinfo]}
            \cup {[EmptyDir EXCEPT !.seqinfo = full.seqinfo, !.gt = File(p)] :
                    p \in Prefixes(full.gt.lines)}
      [] step = "det" ->
            {[full EXCEPT !.det = NoFile, !.img1 = <<>>]}
            \cup {[full EXCEPT !.det = File(p), !.img1 = <<>>] :
                    p \in Prefixes(full.det.lines)}
      [] step = "ffmpeg" ->
            {[full EXCEPT !.img1 = SubSeq(full.img1, 1, k)] : k \in 0..Len(full.img1)}

WriteSteps == {"ffprobe", "seqinfo", "gt", "det", "ffmpeg"}

----------------------------------------------------------------------------
\* __main__

Range(s) == {s[j] : j \in 1..Len(s)}
Annotated(seqname) == Find(tracks_by_video, seqname) # 0
TracksOf(seqname) == tracks_by_video[Find(tracks_by_video, seqname)].val

\* tracks_by_video = parse_ls_tracks(ls_json); videos = ...; if not videos: raise
MainParse ==
    /\ pc = "parse"
    /\ LET parsed == parse_ls_tracks(ls_json)
       IN  /\ tracks_by_video' = parsed.tracks
           /\ pc' = IF parsed.err THEN "parse_error"
                    ELSE IF videos = <<>> THEN "no_videos"
                    ELSE "loop"
    /\ UNCHANGED <<ls_json, FRAME_STRIDE, videos, vi, fs, probe, frameVars>>

\* if seqname not in tracks_by_video: continue
SkipVideo ==
    /\ pc = "loop"
    /\ vi <= Len(videos)
    /\ ~Annotated(videos[vi])
    /\ vi' = vi + 1
    /\ UNCHANGED <<ls_json, FRAME_STRIDE, videos, tracks_by_video, pc, fs, probe, frameVars>>

\* write_mot_sequence(...) returns
WriteMotSequence ==
    /\ pc = "loop"
    /\ vi <= Len(videos)
    /\ Annotated(videos[vi])
    /\ \E total \in 0..MaxTotalFrames :
          /\ probe' = [probe EXCEPT ![videos[vi]] = total]
          /\ fs' = [fs EXCEPT ![videos[vi]] =
                       write_mot_sequence(TracksOf(videos[vi]), total, FRAME_STRIDE)]
    /\ vi' = vi + 1
    /\ UNCHANGED <<ls_json, FRAME_STRIDE, videos, tracks_by_video, pc, frameVars>>

\* write_mot_sequence(...) raises at `step`; nothing in __main__ catches it
WriteMotSequenceFails ==
    /\ pc = "loop"
    /\ vi <= Len(videos)
    /\ Annotated(videos[vi])
    /\ \E total \in 0..MaxTotalFrames, step \in WriteSteps :
          /\ probe' = IF step = "ffprobe" THEN probe
                      ELSE [probe EXCEPT ![videos[vi]] = total]
          /\ \E dir \in FailedWrite(
                    write_mot_sequence(TracksOf(videos[vi]), total, FRAME_STRIDE), step) :
                fs' = [fs EXCEPT ![videos[vi]] = dir]
    /\ pc' = "write_error"
    /\ UNCHANGED <<ls_json, FRAME_STRIDE, videos, tracks_by_video, vi, frameVars>>

\* the loop is over: print("All sequences processed")
Finish ==
    /\ pc = "loop"
    /\ vi > Len(videos)
    /\ pc' = "done"
    /\ UNCHANGED <<ls_json, FRAME_STRIDE, videos, tracks_by_video, vi, fs, probe, frameVars>>

----------------------------------------------------------------------------
\* The exports explored.

AllTypes == {"videorectangle", "other"}
Kf(frame, enabled, fields) == [frame |-> frame, enabled |-> enabled, fields |-> fields]
Result(type, id, sequence) ==
    [type |-> type, id |-> id, from_name |-> <<98, 111, 120>>,
     to_name |-> <<118>>, sequence |-> sequence]
Task(id, video, annotations) == [id |-> id, video |-> video, annotations |-> annotations]
Ann(results) == [result |-> results]

VideoA == <<97>>
VideoB == <<98>>
StemsOfA == {<<117, 45, 97>>, <<97>>}
ResultIds == {NoId, StrKey(<<49>>), IntKey(1), StrKey(<<50>>)}
EnabledValues == {"true", "false", "absent"}

\* Two tracks of one video: every pair of ids, every choice of frames.
TwoTrackExports ==
    {<<Task(1, <<117, 45, 97>>,
            <<Ann(<<Result("videorectangle", id1,
                           <<Kf(f1, "true", KeyframeFields), Kf(f2, "absent", KeyframeFields)>>),
                    Result("videorectangle", id2, <<Kf(f3, "true", KeyframeFields)>>)>>)>>)>> :
        id1 \in ResultIds, id2 \in ResultIds,
        f1 \in 1..MaxFrame, f2 \in 1..MaxFrame, f3 \in 1..MaxFrame}

\* One track: every sequence of up to MaxKeyframes keyframes, enabled or not.
RECURSIVE SeqsUpTo(_, _)
SeqsUpTo(S, len) ==
    IF len = 0 THEN {<<>>}
    ELSE LET shorter == SeqsUpTo(S, len - 1)
         IN  shorter \cup {Append(q, x) : q \in shorter, x \in S}

FlagExports ==
    {<<Task(1, <<117, 45, 97>>, <<Ann(<<Result("videorectangle", StrKey(<<49>>), q)>>)>>)>> :
        q \in SeqsUpTo({Kf(f, e, KeyframeFields) : f \in 1..MaxFrame, e \in EnabledValues},
                       MaxKeyframes)}

\* Two tasks, or one task with two annotation passes: every video reference, type and id.
SmallResults ==
    {Result(type, id, <<Kf(1, "true", KeyframeFields)>>) :
        type \in AllTypes, id \in {NoId, StrKey(<<49>>)}}

TaskExports ==
    {<<Task(1, v1, <<Ann(<<r1>>)>>), Task(2, v2, <<Ann(<<r2>>)>>)>> :
        v1 \in StemsOfA \cup {<<>>, VideoB}, v2 \in StemsOfA \cup {<<>>, VideoB},
        r1 \in SmallResults, r2 \in SmallResults}
    \cup {<<Task(1, VideoA, <<Ann(<<r1>>), Ann(<<r2>>)>>)>> :
            r1 \in SmallResults, r2 \in SmallResults}

\* Three tracks of one video, one keyframe each: every triple of ids.
KeyExports ==
    {<<Task(1, VideoA,
            <<Ann(<<Result("videorectangle", id1, <<Kf(1, "true", KeyframeFields)>>),
                    Result("videorectangle", id2, <<Kf(2, "true", KeyframeFields)>>),
                    Result("videorectangle", id3, <<Kf(1, "true", KeyframeFields)>>)>>)>>)>> :
        id1 \in ResultIds \cup {StrKey(<<49, 48>>)},
        id2 \in ResultIds \cup {StrKey(<<49, 48>>)},
        id3 \in ResultIds \cup {StrKey(<<49, 48>>)}}

SeqExports == TwoTrackExports \cup FlagExports \cup TaskExports \cup KeyExports

\* Exports of the whole run: task 1 (video a) has a well-formed keyframe and then one
\* keyframe of every shape; task 2 is absent, is of video b, or has no video.
ShapedKeyframes ==
    {Kf(2, e, flds) : e \in EnabledValues,
                      flds \in {KeyframeFields} \cup {KeyframeFields \ {x} : x \in KeyframeFields}}

SecondTasks ==
    {<<>>,
     <<Task(2, VideoB, <<Ann(<<Result("videorectangle", NoId,
                                     <<Kf(1, "true", KeyframeFields)>>)>>)>>)>>,
     <<Task(2, <<>>, <<Ann(<<Result("videorectangle", StrKey(<<49>>),
                                   <<Kf(1, "true", KeyframeFields \ {"width"})>>)>>)>>)>>}

MainExports ==
    {<<Task(1, <<117, 45, 97>>,
            <<Ann(<<Result("videorectangle", StrKey(<<49>>),
                           <<Kf(1, "true", KeyframeFields), kf>>)>>)>>)>> \o second :
        kf \in ShapedKeyframes, second \in SecondTasks}

----------------------------------------------------------------------------
\* Specifications

FrameIdle ==
    /\ total_frames = 0 /\ n = 0 /\ img1 = <<>>
    /\ ls_frame = 0 /\ mot_frame = 0 /\ seq_length = -1

MainStart ==
    /\ tracks_by_video = <<>>
    /\ pc = "parse"
    /\ vi = 1
    /\ fs = [v \in Range(videos) |-> EmptyDir]
    /\ probe = [v \in Range(videos) |-> -1]

\* The whole run, with the failures of ffprobe, of the writes and of ffmpeg.
Init ==
    /\ ls_json \in MainExports
    /\ FRAME_STRIDE \in 1..MaxStride
    /\ videos \in {<<>>, <<VideoA, VideoB>>, <<VideoB, VideoA>>}
    /\ MainStart
    /\ FrameIdle

Next == MainParse \/ SkipVideo \/ WriteMotSequence \/ WriteMotSequenceFails \/ Finish

Spec == Init /\ [][Next]_vars

\* One video, every call returning: what is written for it.
InitSeq ==
    /\ ls_json \in SeqExports
    /\ FRAME_STRIDE \in 1..MaxStride
    /\ videos = <<VideoA>>
    /\ MainStart
    /\ FrameIdle

NextSeq == MainParse \/ SkipVideo \/ WriteMotSequence \/ Finish

SpecSeq == InitSeq /\ [][NextSeq]_vars

\* The frame mapping against the extractor, on a stream of total_frames frames.
\* ffmpeg decodes frame n and keeps it or not
FfmpegDecodeFrame ==
    /\ n < total_frames
    /\ img1' = IF SelectFrame(n, FRAME_STRIDE) THEN Append(img1, n) ELSE img1
    /\ n' = n + 1
    /\ UNCHANGED <<FRAME_STRIDE, total_frames, ls_frame, mot_frame, seq_length, mainVars>>

\* the body of "for ls_frame, x, y, w, h in frames" on one keyframe
MapKeyframe ==
    /\ \E f \in 1..MaxSourceFrames :
          /\ ls_frame' = f
          /\ mot_frame' = MotFrame(f, FRAME_STRIDE)
    /\ UNCHANGED <<FRAME_STRIDE, total_frames, n, img1, seq_length, mainVars>>

\* seq_length as written to seqinfo.ini
WriteSeqinfo ==
    /\ seq_length = -1
    /\ seq_length' = SeqLength(total_frames, FRAME_STRIDE)
    /\ UNCHANGED <<FRAME_STRIDE, total_frames, n, img1, ls_frame, mot_frame, mainVars>>

InitFrame ==
    /\ FRAME_STRIDE \in 1..MaxStride
    /\ total_frames \in 0..MaxSourceFrames
    /\ n = 0 /\ img1 = <<>> /\ ls_frame = 0 /\ mot_frame = 0 /\ seq_length = -1
    /\ ls_json = <<>> /\ videos = <<>>
    /\ MainStart

NextFrame == FfmpegDecodeFrame \/ MapKeyframe \/ WriteSeqinfo

SpecFrame == InitFrame /\ [][NextFrame]_vars

----------------------------------------------------------------------------
\* What the properties speak of.

RowFrame(line) == StrToInt(SplitField(line, 1))
RowId(line) == StrToInt(SplitField(line, 2))

\* Video number j of the loop was written by a call that returned.
Completed(j) ==
    /\ pc \in {"loop", "done", "write_error"}
    /\ j \in 1..Len(videos)
    /\ j < vi
    /\ Annotated(videos[j])

\* The keyframes of the export, as (task, annotation, result, keyframe) positions.
KeyframesOfExport ==
    UNION {UNION {UNION {{<<t, a, r, k>> :
                            k \in 1..Len(ls_json[t].annotations[a].result[r].sequence)} :
                         r \in 1..Len(ls_json[t].annotations[a].result)} :
                  a \in 1..Len(ls_json[t].annotations)} :
           t \in 1..Len(ls_json)}
TaskAt(q) == ls_json[q[1]]
ResultAt(q) == ls_json[q[1]].annotations[q[2]].result[q[3]]
KeyframeAt(q) == ResultAt(q).sequence[q[4]]

\* The keyframes of tracked-rectangle results of video `seqname`.
KeyframesOfVideo(seqname) ==
    {q \in KeyframesOfExport :
        /\ TaskAt(q).video # <<>>
        /\ VideoName(TaskAt(q).video) = seqname
        /\ ResultAt(q).type = "videorectangle"}

NoOutputs == \A v \in DOMAIN fs : fs[v] = EmptyDir

\* What a later stage finds in a sequence directory that it takes for complete.
LooksComplete(dir) == dir.seqinfo.exists /\ dir.gt.exists /\ dir.det.exists

KeyOrders(keys) ==
    {p \in [1..Len(keys) -> Range(keys)] : Range(p) = Range(keys)}

StrInjective(keys) ==
    \A i, j \in 1..Len(keys) : Str(keys[i]) = Str(keys[j]) => keys[i] = keys[j]

----------------------------------------------------------------------------
C2_SeqLengthIsImageCount ==
    (seq_length # -1 /\ n = total_frames) =>
        /\ seq_length = Len(img1)
        /\ seq_length = Cardinality({idx \in 0..(total_frames - 1) : idx % FRAME_STRIDE = 0})
        /\ total_frames = 0 => seq_length = 0
        /\ total_frames > 0 =>
              /\ \A f \in 1..total_frames : MotFrame(f, FRAME_STRIDE) <= seq_length
              /\ \E f \in 1..total_frames : MotFrame(f, FRAME_STRIDE) = seq_length

C2_Witness ==
    /\ FRAME_STRIDE = 3 /\ total_frames = 7 /\ n = 7
    /\ seq_length = 3 /\ Len(img1) = 3

\* C3: when write_mot_sequence fails, no partly written gt/gt.txt is at its final
\* path and the directory left behind cannot be taken for a complete one.
C3_AllOrNothing ==
    pc = "write_error" =>
        LET dir == fs[videos[vi]]
        IN  /\ dir.gt.exists =>
                 dir.gt.lines = gt_lines(TracksOf(videos[vi]), FRAME_STRIDE)
            /\ ~LooksComplete(dir)

\* C4 (as amended): the track-id map is a bijection from the keys onto 1..N, in
\* ascending order of str(key), and it is the same for every insertion order of the
\* keys when no two distinct keys have the same str.
C4_TrackIdMapWhenStrDistinct ==
    pc \in {"loop", "done"} =>
        \A v \in 1..Len(tracks_by_video) :
            LET keys == Keys(tracks_by_video[v].val)
                map == track_id_map(tracks_by_video[v].val)
            IN  /\ Len(map) = Len(keys)
                /\ Range(map) = Range(keys)
                /\ \A i, j \in 1..Len(map) : map[i] = map[j] => i = j
                /\ \A key \in Range(keys) : MotId(map, key) \in 1..Len(keys)
                /\ \A i, j \in 1..Len(map) : i < j => ~LexLess(Str(map[j]), Str(map[i]))
                /\ StrInjective(keys) =>
                      \A p \in KeyOrders(keys) : SortedKeys(p) = map

C4_Witness ==
    /\ pc = "loop"
    /\ \E v \in 1..Len(tracks_by_video) :
          LET keys == Keys(tracks_by_video[v].val)
          IN  /\ Len(keys) = 3
              /\ StrInjective(keys)
              /\ track_id_map(tracks_by_video[v].val) # keys
              /\ MotId(track_id_map(tracks_by_video[v].val), keys[1]) = 3

\* C4 (as claimed): ... and it is the same for every insertion order of the keys.
C4_TrackIdMapAnyOrder ==
    pc \in {"loop", "done"} =>
        \A v \in 1..Len(tracks_by_video) :
            LET keys == Keys(tracks_by_video[v].val)
                map == track_id_map(tracks_by_video[v].val)
            IN  /\ Range(map) = Range(keys)
                /\ \A i, j \in 1..Len(map) : i < j => ~LexLess(Str(map[j]), Str(map[i]))
                /\ \A p \in KeyOrders(keys) : SortedKeys(p) = map

\* C5: the rows of gt.txt are sorted by destination frame and, within a frame, by
\* track id.
C5_GtRowsSorted ==
    \A v \in DOMAIN fs :
        LET lines == fs[v].gt.lines
        IN  \A i, j \in 1..Len(lines) :
                i < j =>
                    \/ RowFrame(lines[i]) < RowFrame(lines[j])
                    \/ /\ RowFrame(lines[i]) = RowFrame(lines[j])
                       /\ RowId(lines[i]) <= RowId(lines[j])

C5_Witness ==
    /\ Completed(1)
    /\ LET lines == fs[videos[1]].gt.lines
           tracks == TracksOf(videos[1])
       IN  /\ Len(lines) = 3
           /\ Len(tracks) = 2
           /\ track_id_map(tracks) # Keys(tracks)
           /\ RowFrame(lines[1]) = 1 /\ RowId(lines[1]) = 1
           /\ RowFrame(lines[2]) = 1 /\ RowId(lines[2]) = 2
           /\ RowFrame(lines[3]) = 2 /\ RowId(lines[3]) = 2

\* C6: a keyframe with enabled == false gives no row and every other keyframe gives
\* exactly one: gt.txt of a video has as many rows as its tracked-rectangle results
\* have keyframes whose enabled flag is true or absent, and a video with none is
\* not written.
C6_OneRowPerEnabledKeyframe ==
    pc \in {"loop", "done"} =>
        \A j \in 1..Len(videos) :
            LET kept == {q \in KeyframesOfVideo(videos[j]) :
                            KeyframeAt(q).enabled \in {"true", "absent"}}
            IN  /\ Completed(j) => Len(fs[videos[j]].gt.lines) = Cardinality(kept)
                /\ Completed(j) => Len(fs[videos[j]].det.lines) = Cardinality(kept)
                /\ (j < vi /\ ~Annotated(videos[j])) =>
                       kept = {} /\ ~fs[videos[j]].gt.exists

C6_Witness ==
    /\ Completed(1)
    /\ Len(fs[videos[1]].gt.lines) = 1
    /\ \E q \in KeyframesOfVideo(videos[1]) : KeyframeAt(q).enabled = "false"
    /\ \E q \in KeyframesOfVideo(videos[1]) : KeyframeAt(q).enabled = "absent"

\* C7 (as amended): if a keyframe that is not disabled, of a tracked-rectangle
\* result of a task that has a video, lacks one of frame, x, y, width, height, then
\* parsing fails for the whole export and no output file is written for any video.
C7_ReadKeyframeMissingFieldFails ==
    (pc # "parse"
     /\ \E q \in KeyframesOfExport :
            /\ TaskAt(q).video # <<>>
            /\ ResultAt(q).type = "videorectangle"
            /\ KeyframeAt(q).enabled # "false"
            /\ \E x \in KeyframeFields : x \notin KeyframeAt(q).fields)
    => (pc = "parse_error" /\ NoOutputs)

C7_Witness ==
    /\ pc = "parse_error"
    /\ NoOutputs
    /\ videos # <<>>
    /\ \E q \in KeyframesOfExport :
          /\ KeyframeAt(q).enabled = "absent"
          /\ KeyframeAt(q).fields = KeyframeFields \ {"width"}

\* C7 (as claimed): if any keyframe of any tracked-rectangle result lacks one of
\* the fields, parsing fails and no output file is written.
C7_AnyKeyframeMissingFieldFails ==
    (pc # "parse"
     /\ \E q \in KeyframesOfExport :
            /\ ResultAt(q).type = "videorectangle"
            /\ \E x \in KeyframeFields : x \notin KeyframeAt(q).fields)
    => (pc = "parse_error" /\ NoOutputs)

\* C8: two distinct tracked-rectangle results of one video never come under one
\* track key: the fallback key of a result without an id is its own.
C8_FallbackKeyUnique ==
    pc \in {"loop", "done"} =>
        \A q1, q2 \in KeyframesOfExport :
            (/\ <<q1[1], q1[2], q1[3]>> # <<q2[1], q2[2], q2[3]>>
             /\ q1 \in KeyframesOfVideo(VideoName(TaskAt(q1).video))
             /\ q2 \in KeyframesOfVideo(VideoName(TaskAt(q1).video))
             /\ KeyframeAt(q1).enabled # "false"
             /\ KeyframeAt(q2).enabled # "false"
             /\ Falsy(ResultAt(q1).id))
            => TrackKey(TaskAt(q1), ResultAt(q1)) # TrackKey(TaskAt(q2), ResultAt(q2))

\* C9: when the probe or the writing fails for one video, every other video with
\* annotations is still processed, and what was written before stays.
C9_OtherVideosProcessed ==
    pc = "write_error" =>
        \A j \in 1..Len(videos) :
            (j # vi /\ Annotated(videos[j])) =>
                /\ probe[videos[j]] # -1
                /\ fs[videos[j]] = write_mot_sequence(TracksOf(videos[j]),
                                                      probe[videos[j]], FRAME_STRIDE)

\* C10: if every kept keyframe of a video has 1 <= frame <= total_frames, every
\* frame number of gt.txt and det.txt is in 1..seqLength of seqinfo.ini.
C10_RowsWithinSeqLength ==
    \A j \in 1..Len(videos) :
        Completed(j) =>
            LET dir == fs[videos[j]]
                tracks == TracksOf(videos[j])
            IN  (\A t \in 1..Len(tracks) : \A k \in 1..Len(tracks[t].val) :
                    tracks[t].val[k] \in 1..probe[videos[j]])
                => /\ \A i \in 1..Len(dir.gt.lines) :
                        RowFrame(dir.gt.lines[i]) \in 1..dir.seqinfo.seqLength
                   /\ \A i \in 1..Len(dir.det.lines) :
                        RowFrame(dir.det.lines[i]) \in 1..dir.seqinfo.seqLength
                   /\ dir.seqinfo.seqLength = Len(dir.img1)

C10_Witness ==
    /\ Completed(1)
    /\ FRAME_STRIDE = 3
    /\ probe[videos[1]] = 4
    /\ fs[videos[1]].seqinfo.seqLength = 2
    /\ LET tracks == TracksOf(videos[1])
       IN  \A t \in 1..Len(tracks) : \A k \in 1..Len(tracks[t].val) : tracks[t].val[k] <= 4
    /\ \E i \in 1..Len(fs[videos[1]].gt.lines) : RowFrame(fs[videos[1]].gt.lines[i]) = 2

\* C10, its second half: the precondition is not checked, and a keyframe beyond
\* total_frames gives a row beyond seqLength (reachable: its negation is no invariant).
C10_RowBeyondSeqLength ==
    /\ Completed(1)
    /\ \E i \in 1..Len(fs[videos[1]].gt.lines) :
          RowFrame(fs[videos[1]].gt.lines[i]) > fs[videos[1]].seqinfo.seqLength

====
